---- MODULE Spec2Model ----
(***************************************************************************)
(* The chirpy record store: internal/database (the snapshot with chirps,   *)
(* users and revoked refresh tokens) and the way main's request handlers   *)
(* use it.  Every request handler obtains its own DB through NewDB and     *)
(* then calls one store operation; every operation is loadDB, a mutation   *)
(* of the in-memory DBStructure and writeDB.                               *)
(***************************************************************************)
EXTENDS Integers, Sequences, FiniteSets, TLC

\* ------------------------------------------------------------------ bounds
\* Number of requests served in one behaviour, one after the other.
MaxOps == 3
\* Number of requests served in one behaviour when they are served concurrently.
MaxConcOps == 2
\* Number of calls made in one behaviour on the DB the goroutines share.
MaxSharedOps == 3
\* Number of requests for /app and /api/reset in one behaviour.
MaxHits == 4

\* ------------------------------------------------------------------ inputs
\* Concurrent request goroutines (net/http serves each request in its own).
Procs == {"g1", "g2"}
\* Ids a request may name: chirp ids, user ids, authors, requesters.
Ids == 1..2
\* Authors a chirp is created for, and authors a listing is filtered by.
Authors == Ids \cup {7}
Filters == {1, 7, 99}
\* Strings are sequences of characters, so that ToLower and TrimSpace act on them.
Emails == { <<"a">>, <<"A", " ">>, <<"b">> }
Passwords == {"pw1", "pw2"}
Bodies == {"hello"}
Tokens == {"t1", "t2"}
\* Wall-clock readings time.Now() may return.
Times == {10}
\* The words of the chirp bodies that are cleaned, the word between two
\* spaces that follow each other among them, and the bodies made of them.
MaxWords == 3
Words ==
    { <<"O", "h">>, <<"T", "H", "A", "T", "!">>, <<"F", "O", "R", "N", "A", "X">>,
      <<"s", "h", "a", "r", "b", "e", "r", "t">>,
      <<"k", "e", "R", "F", "u", "f", "f", "l", "e">>,
      <<"k", "e", "r", "f", "u", "f", "f", "l", "e", "!">>, << >> }

\* ----------------------------------------------------------------- strings
UpperCase == <<"A", "B", "C", "D", "E", "F", "G", "H", "I", "J", "K", "L", "M",
               "N", "O", "P", "Q", "R", "S", "T", "U", "V", "W", "X", "Y", "Z">>

LowerCase == <<"a", "b", "c", "d", "e", "f", "g", "h", "i", "j", "k", "l", "m",
               "n", "o", "p", "q", "r", "s", "t", "u", "v", "w", "x", "y", "z">>

LowerChar(c) ==
    IF \E i \in 1..Len(UpperCase) : UpperCase[i] = c
    THEN LowerCase[CHOOSE i \in 1..Len(UpperCase) : UpperCase[i] = c]
    ELSE c

ToLower(s) == [i \in 1..Len(s) |-> LowerChar(s[i])]

IsSpace(c) == c = " "

RECURSIVE TrimLeft(_)
TrimLeft(s) ==
    IF s # <<>> /\ IsSpace(Head(s)) THEN TrimLeft(Tail(s)) ELSE s

RECURSIVE TrimRight(_)
TrimRight(s) ==
    IF s # <<>> /\ IsSpace(s[Len(s)]) THEN TrimRight(SubSeq(s, 1, Len(s) - 1)) ELSE s

TrimSpace(s) == TrimRight(TrimLeft(s))

normalizeEmail(email) == TrimSpace(ToLower(email))

\* strings.Split(s, sep) for a separator of one character.
RECURSIVE Split(_, _)
Split(s, sep) ==
    IF \A i \in 1..Len(s) : s[i] # sep
    THEN <<s>>
    ELSE LET i == CHOOSE i \in 1..Len(s) :
                     s[i] = sep /\ \A j \in 1..(i - 1) : s[j] # sep
         IN <<SubSeq(s, 1, i - 1)>> \o Split(SubSeq(s, i + 1, Len(s)), sep)

\* strings.Join(elems, sep).
RECURSIVE Join(_, _)
Join(elems, sep) ==
    IF elems = << >> THEN << >>
    ELSE IF Len(elems) = 1 THEN elems[1]
    ELSE elems[1] \o <<sep>> \o Join(Tail(elems), sep)

\* ------------------------------------------------------------- cleanChirp
dirtyWords ==
    << <<"k", "e", "r", "f", "u", "f", "f", "l", "e">>,
       <<"s", "h", "a", "r", "b", "e", "r", "t">>,
       <<"f", "o", "r", "n", "a", "x">> >>

Stars == <<"*", "*", "*", "*">>

\* Mutant of cleanWord: the word is compared as it is written.
cleanWordExact(word) ==
    IF \E i \in 1..Len(dirtyWords) : word = dirtyWords[i] THEN Stars ELSE word

cleanWord(word) ==
    IF \E i \in 1..Len(dirtyWords) : ToLower(word) = dirtyWords[i] THEN Stars ELSE word

cleanChirp(chirp) ==
    LET chirpWords == Split(chirp, " ")
    IN Join([i \in 1..Len(chirpWords) |-> cleanWord(chirpWords[i])], " ")

\* ------------------------------------------------------------------ bcrypt
\* The hash is opaque; all the store uses is that CompareHashAndPassword
\* accepts exactly the password the hash was generated from.  The salt is left
\* out, and so is the error GenerateFromPassword returns for a password it
\* cannot hash: no password of Passwords is one.
GenerateFromPassword(password) == <<"bcrypt", password>>

CompareHashAndPassword(hash, password) == hash = GenerateFromPassword(password)

\* -------------------------------------------------------------------- maps
\* A Go map is a function on its key set.
EmptyMap == [k \in {} |-> 0]

\* Mutant of MapPut: the map is made anew with the one entry.
MapPutOnly(m, k, v) == [x \in {k} |-> v]

MapPut(m, k, v) == [x \in DOMAIN m \cup {k} |-> IF x = k THEN v ELSE m[x]]

\* Mutant of MapDelete: the entry is kept.
MapDeleteNone(m, k) == m

\* Mutant of MapDelete: the map is emptied.
MapDeleteAll(m, k) == [x \in {} |-> 0]

MapDelete(m, k) == [x \in DOMAIN m \ {k} |-> m[x]]

\* --------------------------------------------------------------- the file
\* time.Now() carries a monotonic reading, which gob does not transmit.
Now(t) == [wall |-> t, mono |-> TRUE]

\* Mutant of StripMono: the wall-clock reading is not transmitted either.
StripWall(t) == [wall |-> 0, mono |-> FALSE]

StripMono(t) == [wall |-> t.wall, mono |-> FALSE]

\* The file at db.path: absent, empty (created or truncated, nothing written
\* yet: it does not decode) or one gob-encoded DBStructure.
NoFile == [kind |-> "absent"]

EmptyFile == [kind |-> "empty"]

\* The map fields of DBStructure. NilMaps of a structure names those that are
\* nil: all three in the zero value, none once they have been made.
MapFields == {"Chirps", "Users", "RevokedRefreshTokens"}

\* Mutant of GobEncode: a map without entries is left out of the stream like
\* a nil one.
GobEncodeOmitEmpty(s) ==
    [kind |-> "gob",
     val |-> [s EXCEPT !.RevokedRefreshTokens =
                 [k \in DOMAIN s.RevokedRefreshTokens |->
                     StripMono(s.RevokedRefreshTokens[k])],
              !.NilMaps = @ \cup {m \in MapFields : s[m] = EmptyMap}]]

\* gob leaves a nil map out of the stream and sends a map that is not nil,
\* entries or not; times lose their monotonic reading.
GobEncode(s) ==
    [kind |-> "gob",
     val |-> [s EXCEPT !.RevokedRefreshTokens =
                 [k \in DOMAIN s.RevokedRefreshTokens |->
                     StripMono(s.RevokedRefreshTokens[k])]]]

Decodes(f) == f.kind = "gob"

\* Decoding into the zero DBStructure{} of loadDB: a map of the stream is
\* made and filled, a map the stream leaves out stays nil.
GobDecode(f) == f.val

\* os.Open and os.OpenFile without O_CREATE succeed on a file that is there.
Opens(f) == f.kind # "absent"

existsNever(f) == FALSE

\* exists: os.Stat finds the file.
exists(f) == f.kind # "absent"

\* The DBStructure ensureDB writes into a file it has just created.
InitialStructure ==
    [NextChirpId |-> 1,
     NextUserId |-> 1,
     Chirps |-> EmptyMap,
     Users |-> EmptyMap,
     RevokedRefreshTokens |-> EmptyMap,
     NilMaps |-> {}]

\* The zero DBStructure{} loadDB returns with an error.
ZeroStructure ==
    [NextChirpId |-> 0,
     NextUserId |-> 0,
     Chirps |-> EmptyMap,
     Users |-> EmptyMap,
     RevokedRefreshTokens |-> EmptyMap,
     NilMaps |-> MapFields]

\* The ids of the users a file holds with IsChirpyRed set.
UpgradedInFile(f) ==
    {id \in DOMAIN GobDecode(f).Users : GobDecode(f).Users[id].IsChirpyRed}

\* ------------------------------------------------------------------- state
VARIABLES
    file,        \* the content of the file at db.path ("./database.gob")
    pc,          \* where each request goroutine stands
    op,          \* the store operation each goroutine's handler calls
    stage,       \* which caller of loadDB/writeDB is running: "init", "op", "check"
    mux,         \* the RWMutex of each DB, a DB named by the goroutine whose NewDB made it
    db,          \* the DB each goroutine calls its operation on
    fd,          \* the file handle each goroutine holds: "none", "read", "write"
    loaded,      \* the DBStructure loadDB returned to the goroutine
    dbStruct,    \* the DBStructure the operation mutates and hands to writeDB
    ret,         \* the operation's return values
    pre,         \* the file content when the operation was called
    prev,        \* the call completed last: its name, arguments, error, entity made
    createdIds,  \* the ids successive CreateChirp calls returned without error
    revokedSeen, \* the tokens some stored snapshot has held as revoked
    upgradedSeen, \* the user ids some stored snapshot has held as upgraded
    firstChirp, \* for each chirp id, the chirp first stored under it
    lastStored, \* the structure the last writeDB that succeeded was given
    deletedIds, \* the chirp ids a DeleteChirp call has returned success for
    overlapped,  \* whether a request was ever served while another was running
    nops,        \* requests served so far
    fileserverHits, \* apiConfig.fileserverHits
    hitsRead,    \* the value of fileserverHits each goroutine's ++ has read
    appServed    \* the /app requests served since resetHandler last ran

vars == <<file, pc, op, stage, mux, db, fd, loaded, dbStruct, ret, pre, prev,
          createdIds, revokedSeen, upgradedSeen, firstChirp, lastStored, deletedIds, overlapped, nops,
          fileserverHits, hitsRead, appServed>>

\* The state of the file-server hit counter.
hitVars == <<fileserverHits, hitsRead, appServed>>

NoOp == [name |-> "none", args |-> <<>>]

NoRet == [err |-> "none", val |-> "none"]

FreshMutex == [readers |-> 0, writer |-> FALSE]

\* sync.RWMutex: RLock waits while a writer holds the mutex, Lock waits while
\* anyone holds it.
CanRLock(m) == ~m.writer

RLock(m) == [m EXCEPT !.readers = @ + 1]

\* Mutant of RUnlock: the read lock is kept.
RUnlockMissing(m) == m

RUnlock(m) == [m EXCEPT !.readers = @ - 1]

CanLock(m) == m.readers = 0 /\ ~m.writer

Lock(m) == [m EXCEPT !.writer = TRUE]

\* Mutant of Unlock: the write lock is kept.
UnlockMissing(m) == m

Unlock(m) == [m EXCEPT !.writer = FALSE]

\* The calls a handler can make, with their arguments.
Calls ==
    {[name |-> "CreateChirp", args |-> <<a, b>>] : a \in Authors, b \in Bodies}
    \cup {[name |-> "DeleteChirp", args |-> <<c, u>>] : c \in Ids, u \in Ids}
    \cup {[name |-> "CreateUser", args |-> <<e, w>>] : e \in Emails, w \in Passwords}
    \cup {[name |-> "UpdateUser", args |-> <<u, e, w>>] :
            u \in Ids, e \in Emails, w \in Passwords}
    \cup {[name |-> "UpgradeUser", args |-> <<u>>] : u \in Ids}
    \cup {[name |-> "RevokeRefreshToken", args |-> <<t>>] : t \in Tokens}
    \cup {[name |-> "IsTokenRevoked", args |-> <<t>>] : t \in Tokens}
    \cup {[name |-> "GetChirp", args |-> <<c>>] : c \in Ids}
    \cup {[name |-> "GetChirps", args |-> <<>>]}
    \cup {[name |-> "GetChirpsFromId", args |-> <<a>>] : a \in Filters}
    \cup {[name |-> "GetUser", args |-> <<e>>] : e \in Emails}
    \cup {[name |-> "ComparePasswords", args |-> <<w, e>>] :
            w \in Passwords, e \in Emails}

Init ==
    /\ file = NoFile
    /\ pc = [p \in Procs |-> "idle"]
    /\ op = [p \in Procs |-> NoOp]
    /\ stage = [p \in Procs |-> "none"]
    /\ mux = [p \in Procs |-> FreshMutex]
    /\ db = [p \in Procs |-> p]
    /\ fd = [p \in Procs |-> "none"]
    /\ loaded = [p \in Procs |-> ZeroStructure]
    /\ dbStruct = [p \in Procs |-> ZeroStructure]
    /\ ret = [p \in Procs |-> NoRet]
    /\ pre = [p \in Procs |-> NoFile]
    /\ prev = [name |-> "none", args |-> <<>>, err |-> "none", val |-> "none"]
    /\ createdIds = <<>>
    /\ revokedSeen = {}
    /\ upgradedSeen = {}
    /\ firstChirp = EmptyMap
    /\ lastStored = ZeroStructure
    /\ deletedIds = {}
    /\ overlapped = FALSE
    /\ nops = 0
    /\ fileserverHits = 0
    /\ hitsRead = [p \in Procs |-> 0]
    /\ appServed = 0

\* The goroutine leaves its call with these return values.
Finish(p, r) ==
    /\ pc' = [pc EXCEPT ![p] = "done"]
    /\ ret' = [ret EXCEPT ![p] = r]

\* A handler runs: it calls NewDB("./database.gob"), which makes a DB with a
\* mutex of its own, and will then call one operation on that DB.
NewDB(p, c) ==
    /\ pc[p] = "idle"
    /\ nops' = nops + 1
    /\ UNCHANGED hitVars
    /\ op' = [op EXCEPT ![p] = c]
    /\ db' = [db EXCEPT ![p] = p]
    /\ mux' = [mux EXCEPT ![p] = FreshMutex]
    /\ pc' = [pc EXCEPT ![p] = "ensureDB"]
    /\ stage' = [stage EXCEPT ![p] = "init"]
    /\ overlapped' = (overlapped \/ \E q \in Procs : pc[q] # "idle")
    /\ UNCHANGED <<file, fd, loaded, dbStruct, ret, pre, prev, createdIds, revokedSeen, upgradedSeen, firstChirp, lastStored, deletedIds>>

\* ensureDB: nothing to do when the file exists; otherwise go on to create it.
ensureDB(p) ==
    /\ pc[p] = "ensureDB"
    /\ IF exists(file)
       THEN /\ pc' = [pc EXCEPT ![p] = "loadDB"]
            /\ stage' = [stage EXCEPT ![p] = "op"]
            /\ pre' = [pre EXCEPT ![p] = file]
       ELSE /\ pc' = [pc EXCEPT ![p] = "Create"]
            /\ UNCHANGED <<stage, pre>>
    /\ UNCHANGED <<file, op, mux, db, fd, loaded, dbStruct, ret, prev,
                   createdIds, revokedSeen, upgradedSeen, firstChirp, lastStored, deletedIds, overlapped, nops, hitVars>>

\* ensureDB: os.Create makes the file, or truncates the one that is there, and
\* writeDB is called with the initial structure.
Create(p) ==
    /\ pc[p] = "Create"
    /\ file' = EmptyFile
    /\ dbStruct' = [dbStruct EXCEPT ![p] = InitialStructure]
    /\ pc' = [pc EXCEPT ![p] = "writeDB"]
    /\ UNCHANGED <<op, stage, mux, db, fd, loaded, ret, pre, prev, createdIds, revokedSeen, upgradedSeen, firstChirp, lastStored, deletedIds, overlapped, nops, hitVars>>

\* loadDB: take the read lock of the own mutex and open the file.
loadDB(p) ==
    /\ pc[p] = "loadDB"
    /\ CanRLock(mux[db[p]])
    /\ IF Opens(file)
       THEN /\ mux' = [mux EXCEPT ![db[p]] = RLock(@)]
            /\ fd' = [fd EXCEPT ![p] = "read"]
            /\ pc' = [pc EXCEPT ![p] = "Decode"]
            /\ UNCHANGED ret
       ELSE /\ Finish(p, [err |-> "ErrNotExist", val |-> "none"])
            /\ UNCHANGED <<mux, fd>>
    /\ UNCHANGED <<file, op, db, stage, loaded, dbStruct, pre, prev, createdIds, revokedSeen, upgradedSeen, firstChirp, lastStored, deletedIds, overlapped, nops, hitVars>>

\* loadDB: decode the file, close it and release the read lock.
Decode(p) ==
    /\ pc[p] = "Decode"
    /\ fd' = [fd EXCEPT ![p] = "none"]
    /\ mux' = [mux EXCEPT ![db[p]] = RUnlock(@)]
    /\ IF Decodes(file)
       THEN /\ loaded' = [loaded EXCEPT ![p] = GobDecode(file)]
            /\ pc' = [pc EXCEPT ![p] = IF stage[p] = "check" THEN "checked" ELSE "body"]
            /\ UNCHANGED ret
       ELSE /\ Finish(p, [err |-> "EOF", val |-> "none"])
            /\ UNCHANGED loaded
    /\ UNCHANGED <<file, op, db, stage, dbStruct, pre, prev, createdIds, revokedSeen, upgradedSeen, firstChirp, lastStored, deletedIds, overlapped, nops, hitVars>>

\* Whether the operation looks at the error writeDB returns: CreateChirp and
\* CreateUser call db.writeDB(dbStruct) and drop its result.
ChecksWriteError(name) == name \notin {"CreateChirp", "CreateUser"}

\* What the caller of writeDB does once writeDB has returned err.
AfterWrite(p, err) ==
    IF stage[p] = "init"
    THEN IF err = "nil"
         THEN /\ pc' = [pc EXCEPT ![p] = "loadDB"]
              /\ stage' = [stage EXCEPT ![p] = "op"]
              /\ pre' = [pre EXCEPT ![p] = file']
              /\ UNCHANGED ret
         ELSE /\ Finish(p, [err |-> err, val |-> "none"])
              /\ UNCHANGED <<stage, pre>>
    ELSE /\ IF err # "nil" /\ ChecksWriteError(op[p].name)
            THEN Finish(p, [err |-> err, val |-> "none"])
            ELSE Finish(p, ret[p])
         /\ UNCHANGED <<stage, pre>>

\* writeDB: take the write lock of the own mutex and open the file with
\* O_WRONLY|O_TRUNC, which empties it.
writeDB(p) ==
    /\ pc[p] = "writeDB"
    /\ CanLock(mux[db[p]])
    /\ IF Opens(file)
       THEN /\ mux' = [mux EXCEPT ![db[p]] = Lock(@)]
            /\ fd' = [fd EXCEPT ![p] = "write"]
            /\ file' = EmptyFile
            /\ pc' = [pc EXCEPT ![p] = "Encode"]
            /\ UNCHANGED <<ret, stage, pre>>
       ELSE /\ UNCHANGED <<mux, fd, file>>
            /\ AfterWrite(p, "ErrNotExist")
    /\ UNCHANGED <<op, db, loaded, dbStruct, prev, createdIds, revokedSeen, upgradedSeen, firstChirp, lastStored, deletedIds, overlapped, nops, hitVars>>

\* writeDB: encode the structure into the file, close it and unlock.
Encode(p) ==
    /\ pc[p] = "Encode"
    /\ file' = GobEncode(dbStruct[p])
    /\ revokedSeen' = revokedSeen \cup DOMAIN GobDecode(file').RevokedRefreshTokens
    /\ upgradedSeen' = upgradedSeen \cup UpgradedInFile(file')
    /\ firstChirp' = [id \in DOMAIN firstChirp \cup DOMAIN GobDecode(file').Chirps |->
                         IF id \in DOMAIN firstChirp
                         THEN firstChirp[id]
                         ELSE GobDecode(file').Chirps[id]]
    /\ lastStored' = dbStruct[p]
    /\ fd' = [fd EXCEPT ![p] = "none"]
    /\ mux' = [mux EXCEPT ![db[p]] = Unlock(@)]
    /\ AfterWrite(p, "nil")
    /\ UNCHANGED <<op, db, loaded, dbStruct, prev, createdIds, deletedIds, overlapped, nops, hitVars>>

\* An operation that has its result and writes the mutated structure.
Store(p, s, r) ==
    /\ dbStruct' = [dbStruct EXCEPT ![p] = s]
    /\ ret' = [ret EXCEPT ![p] = r]
    /\ pc' = [pc EXCEPT ![p] = "writeDB"]

\* An operation that assigns to an entry of map field m and stores the
\* structure s: the assignment to an entry of a nil map panics, and net/http
\* recovers the panic of the handler's goroutine.
Assign(p, m, s, r) ==
    IF m \in s.NilMaps
    THEN /\ Finish(p, [err |-> "panic", val |-> "none"])
         /\ UNCHANGED dbStruct
    ELSE Store(p, s, r)

Body(p, name) == pc[p] = "body" /\ op[p].name = name

\* Mutant of Increment: the counter is left as it is.
IncrementNot(n) == n

\* dbStruct.NextChirpId++ and dbStruct.NextUserId++.
Increment(n) == n + 1

\* Mutant of NewChirpId: the lowest id no chirp holds, so that the id of a
\* deleted chirp is given again.
NewChirpIdLowestFree(s) ==
    CHOOSE n \in 1..(Cardinality(DOMAIN s.Chirps) + 1) :
        /\ n \notin DOMAIN s.Chirps
        /\ \A m \in 1..(n - 1) : m \in DOMAIN s.Chirps

\* Mutant of NewChirpId: the id is derived from the number of chirps held.
NewChirpIdFromCount(s) == Cardinality(DOMAIN s.Chirps) + 1

\* The id CreateChirp gives the new chirp.
NewChirpId(s) == s.NextChirpId

CreateChirp(p) ==
    /\ Body(p, "CreateChirp")
    /\ LET s == loaded[p]
           chirp == [Id |-> NewChirpId(s),
                     AuthorId |-> op[p].args[1],
                     Body |-> op[p].args[2]]
       IN Assign(p, "Chirps", [s EXCEPT !.Chirps = MapPut(s.Chirps, chirp.Id, chirp),
                                        !.NextChirpId = Increment(s.NextChirpId)],
                 [err |-> "nil", val |-> chirp])
    /\ UNCHANGED <<file, op, stage, mux, db, fd, loaded, pre, prev, createdIds, revokedSeen, upgradedSeen, firstChirp, lastStored, deletedIds, overlapped, nops, hitVars>>

\* Mutant of Authorized: the author is not compared with the requester.
AuthorizedAnyone(chirp, idOfRequestingUser) == TRUE

\* The authorization test of DeleteChirp.
Authorized(chirp, idOfRequestingUser) == chirp.AuthorId = idOfRequestingUser

DeleteChirp(p) ==
    /\ Body(p, "DeleteChirp")
    /\ LET s == loaded[p]
           chirpIdToDelete == op[p].args[1]
           idOfRequestingUser == op[p].args[2]
       IN IF chirpIdToDelete \notin DOMAIN s.Chirps
          THEN /\ Finish(p, [err |-> "ErrChirpDoesNotExist", val |-> "none"])
               /\ UNCHANGED dbStruct
          ELSE IF ~Authorized(s.Chirps[chirpIdToDelete], idOfRequestingUser)
          THEN /\ Finish(p, [err |-> "ErrAuthorization", val |-> "none"])
               /\ UNCHANGED dbStruct
          ELSE Store(p, [s EXCEPT !.Chirps = MapDelete(s.Chirps, chirpIdToDelete)],
                     [err |-> "nil", val |-> "none"])
    /\ UNCHANGED <<file, op, stage, mux, db, fd, loaded, pre, prev, createdIds, revokedSeen, upgradedSeen, firstChirp, lastStored, deletedIds, overlapped, nops, hitVars>>

\* The existence test of CreateUser: the key looked up is the next user id.
UserExists(s, normalizedEmail) == s.NextUserId \in DOMAIN s.Users

CreateUser(p) ==
    /\ Body(p, "CreateUser")
    /\ LET s == loaded[p]
           normalizedEmail == normalizeEmail(op[p].args[1])
           user == [Id |-> s.NextUserId,
                    Email |-> normalizedEmail,
                    Password |-> GenerateFromPassword(op[p].args[2]),
                    IsChirpyRed |-> FALSE]
       IN IF UserExists(s, normalizedEmail)
          THEN /\ Finish(p, [err |-> "ErrUserAlreadyExists", val |-> "none"])
               /\ UNCHANGED dbStruct
          ELSE Assign(p, "Users", [s EXCEPT !.Users = MapPut(s.Users, s.NextUserId, user),
                                            !.NextUserId = Increment(s.NextUserId)],
                      [err |-> "nil", val |-> user])
    /\ UNCHANGED <<file, op, stage, mux, db, fd, loaded, pre, prev, createdIds, revokedSeen, upgradedSeen, firstChirp, lastStored, deletedIds, overlapped, nops, hitVars>>

\* Mutant of UpdatedUser: the literal leaves IsChirpyRed at its zero value.
UpdatedUserNotRed(user, id, email, hashPass) ==
    [Email |-> email, Password |-> hashPass, Id |-> id, IsChirpyRed |-> FALSE]

\* Mutant of UpdatedUser: the password hash of the user found is kept.
UpdatedUserOldPassword(user, id, email, hashPass) ==
    [Email |-> email, Password |-> user.Password, Id |-> id,
     IsChirpyRed |-> user.IsChirpyRed]

\* The user record UpdateUser builds: the e-mail as given, the new hash, the
\* id and the flag of the user found.
UpdatedUser(user, id, email, hashPass) ==
    [Email |-> email, Password |-> hashPass, Id |-> id,
     IsChirpyRed |-> user.IsChirpyRed]

UpdateUser(p) ==
    /\ Body(p, "UpdateUser")
    /\ LET s == loaded[p]
           id == op[p].args[1]
       IN IF id \notin DOMAIN s.Users
          THEN /\ Finish(p, [err |-> "ErrUserDoesNotExist", val |-> "none"])
               /\ UNCHANGED dbStruct
          ELSE LET updatedUser == UpdatedUser(s.Users[id], id, op[p].args[2],
                                              GenerateFromPassword(op[p].args[3]))
               IN Assign(p, "Users", [s EXCEPT !.Users = MapPut(s.Users, id, updatedUser)],
                         [err |-> "nil", val |-> "none"])
    /\ UNCHANGED <<file, op, stage, mux, db, fd, loaded, pre, prev, createdIds, revokedSeen, upgradedSeen, firstChirp, lastStored, deletedIds, overlapped, nops, hitVars>>

\* Mutant of Upgraded: the flag is flipped.
UpgradedToggle(user) == [user EXCEPT !.IsChirpyRed = ~@]

\* The user record UpgradeUser puts back into the map.
Upgraded(user) == [user EXCEPT !.IsChirpyRed = TRUE]

UpgradeUser(p) ==
    /\ Body(p, "UpgradeUser")
    /\ LET s == loaded[p]
           id == op[p].args[1]
       IN IF id \notin DOMAIN s.Users
          THEN /\ Finish(p, [err |-> "ErrUserDoesNotExist", val |-> "none"])
               /\ UNCHANGED dbStruct
          ELSE Assign(p, "Users", [s EXCEPT !.Users =
                            MapPut(s.Users, id, Upgraded(s.Users[id]))],
                      [err |-> "nil", val |-> "none"])
    /\ UNCHANGED <<file, op, stage, mux, db, fd, loaded, pre, prev, createdIds, revokedSeen, upgradedSeen, firstChirp, lastStored, deletedIds, overlapped, nops, hitVars>>

\* Mutant of TokenRevoked: every token counts as revoked.
TokenRevokedAlways(s, token) == TRUE

\* Mutant of TokenRevoked: the map is not consulted.
TokenRevokedNever(s, token) == FALSE

\* The membership test of IsTokenRevoked.
TokenRevoked(s, token) == token \in DOMAIN s.RevokedRefreshTokens

\* RevokeRefreshToken keeps the structure it loaded and calls IsTokenRevoked,
\* which loads the file again.
RevokeRefreshToken(p) ==
    /\ Body(p, "RevokeRefreshToken")
    /\ dbStruct' = [dbStruct EXCEPT ![p] = loaded[p]]
    /\ stage' = [stage EXCEPT ![p] = "check"]
    /\ pc' = [pc EXCEPT ![p] = "loadDB"]
    /\ UNCHANGED <<file, op, mux, db, fd, loaded, ret, pre, prev, createdIds, revokedSeen, upgradedSeen, firstChirp, lastStored, deletedIds, overlapped, nops, hitVars>>

\* RevokeRefreshToken after IsTokenRevoked has returned: the answer comes from
\* the second load, the token is added to the structure of the first.
RevokeChecked(p) ==
    /\ pc[p] = "checked"
    /\ \E t \in Times :
          LET token == op[p].args[1]
              revoked == TokenRevoked(loaded[p], token)
              s == dbStruct[p]
          IN IF revoked
             THEN /\ Finish(p, [err |-> "ErrTokenAlreadyRevoked", val |-> "none"])
                  /\ UNCHANGED dbStruct
             ELSE Assign(p, "RevokedRefreshTokens",
                         [s EXCEPT !.RevokedRefreshTokens =
                               MapPut(s.RevokedRefreshTokens, token, Now(t))],
                         [err |-> "nil", val |-> "none"])
    /\ stage' = [stage EXCEPT ![p] = "op"]
    /\ UNCHANGED <<file, op, mux, db, fd, loaded, pre, prev, createdIds, revokedSeen, upgradedSeen, firstChirp, lastStored, deletedIds, overlapped, nops, hitVars>>

IsTokenRevoked(p) ==
    /\ Body(p, "IsTokenRevoked")
    /\ Finish(p, [err |-> "nil",
                  val |-> TokenRevoked(loaded[p], op[p].args[1])])
    /\ UNCHANGED <<file, op, stage, mux, db, fd, loaded, dbStruct, pre, prev,
                   createdIds, revokedSeen, upgradedSeen, firstChirp, lastStored, deletedIds, overlapped, nops, hitVars>>

GetChirp(p) ==
    /\ Body(p, "GetChirp")
    /\ LET s == loaded[p]
           id == op[p].args[1]
       IN IF id \in DOMAIN s.Chirps
          THEN Finish(p, [err |-> "nil", val |-> <<s.Chirps[id], TRUE>>])
          ELSE Finish(p, [err |-> "nil", val |-> <<"none", FALSE>>])
    /\ UNCHANGED <<file, op, stage, mux, db, fd, loaded, dbStruct, pre, prev,
                   createdIds, revokedSeen, upgradedSeen, firstChirp, lastStored, deletedIds, overlapped, nops, hitVars>>

\* The orders in which a range loop may visit the keys of a map: the
\* iteration order of a Go map is not specified and differs from run to run.
RangeOrders(keys) ==
    {q \in [1..Cardinality(keys) -> keys] :
        \A i, j \in 1..Cardinality(keys) : i # j => q[i] # q[j]}

\* GetChirps: the chirps in the order the loop over the map visits them.
GetChirps(p) ==
    /\ Body(p, "GetChirps")
    /\ LET s == loaded[p]
       IN \E q \in RangeOrders(DOMAIN s.Chirps) :
             Finish(p, [err |-> "nil",
                        val |-> [i \in 1..Len(q) |-> s.Chirps[q[i]]]])
    /\ UNCHANGED <<file, op, stage, mux, db, fd, loaded, dbStruct, pre, prev,
                   createdIds, revokedSeen, upgradedSeen, firstChirp, lastStored, deletedIds, overlapped, nops, hitVars>>

\* Mutant of FromAuthor: the author is not compared.
FromAuthorAny(s, authorId) == DOMAIN s.Chirps

\* The ids of the chirps GetChirpsFromId appends: those of the author.
FromAuthor(s, authorId) == {c \in DOMAIN s.Chirps : s.Chirps[c].AuthorId = authorId}

\* GetChirpsFromId: the chirps of the author in the order the loop over the
\* map visits them.
GetChirpsFromId(p) ==
    /\ Body(p, "GetChirpsFromId")
    /\ LET s == loaded[p]
       IN \E q \in RangeOrders(FromAuthor(s, op[p].args[1])) :
             Finish(p, [err |-> "nil",
                        val |-> [i \in 1..Len(q) |-> s.Chirps[q[i]]]])
    /\ UNCHANGED <<file, op, stage, mux, db, fd, loaded, dbStruct, pre, prev,
                   createdIds, revokedSeen, upgradedSeen, firstChirp, lastStored, deletedIds, overlapped, nops, hitVars>>

\* getUserByEmail: the users whose stored e-mail equals the one looked up.
UsersByEmail(s, email) == {id \in DOMAIN s.Users : s.Users[id].Email = email}

\* GetUser: normalize the e-mail and return the first user the loop over the
\* map finds with it.
GetUser(p) ==
    /\ Body(p, "GetUser")
    /\ LET s == loaded[p]
           normalizedEmail == normalizeEmail(op[p].args[1])
       IN IF UsersByEmail(s, normalizedEmail) = {}
          THEN Finish(p, [err |-> "ErrUserDoesNotExist", val |-> "none"])
          ELSE \E id \in UsersByEmail(s, normalizedEmail) :
                  Finish(p, [err |-> "nil", val |-> s.Users[id]])
    /\ UNCHANGED <<file, op, stage, mux, db, fd, loaded, dbStruct, pre, prev,
                   createdIds, revokedSeen, upgradedSeen, firstChirp, lastStored, deletedIds, overlapped, nops, hitVars>>

\* ComparePasswords: normalize the e-mail, GetUser (which normalizes it
\* again), and compare the candidate with the hash of the user found.
ComparePasswords(p) ==
    /\ Body(p, "ComparePasswords")
    /\ LET s == loaded[p]
           password == op[p].args[1]
           normalizedEmail == normalizeEmail(normalizeEmail(op[p].args[2]))
       IN IF UsersByEmail(s, normalizedEmail) = {}
          THEN Finish(p, [err |-> "ErrUserDoesNotExist", val |-> "none"])
          ELSE \E id \in UsersByEmail(s, normalizedEmail) :
                  Finish(p, [err |-> IF CompareHashAndPassword(s.Users[id].Password,
                                                               password)
                                     THEN "nil"
                                     ELSE "ErrMismatchedHashAndPassword",
                             val |-> "none"])
    /\ UNCHANGED <<file, op, stage, mux, db, fd, loaded, dbStruct, pre, prev,
                   createdIds, revokedSeen, upgradedSeen, firstChirp, lastStored, deletedIds, overlapped, nops, hitVars>>

\* The handler has the operation's result and the request ends.
Return(p) ==
    /\ pc[p] = "done"
    /\ pc' = [pc EXCEPT ![p] = "idle"]
    /\ prev' = [name |-> op[p].name, args |-> op[p].args, err |-> ret[p].err,
                val |-> IF op[p].name \in {"CreateChirp", "CreateUser"}
                        THEN ret[p].val ELSE "none"]
    /\ createdIds' = IF op[p].name = "CreateChirp" /\ ret[p].err = "nil"
                     THEN Append(createdIds, ret[p].val.Id)
                     ELSE createdIds
    /\ op' = [op EXCEPT ![p] = NoOp]
    /\ stage' = [stage EXCEPT ![p] = "none"]
    /\ loaded' = [loaded EXCEPT ![p] = ZeroStructure]
    /\ dbStruct' = [dbStruct EXCEPT ![p] = ZeroStructure]
    /\ ret' = [ret EXCEPT ![p] = NoRet]
    /\ pre' = [pre EXCEPT ![p] = NoFile]
    /\ deletedIds' = IF op[p].name = "DeleteChirp" /\ ret[p].err = "nil"
                     THEN deletedIds \cup {op[p].args[1]}
                     ELSE deletedIds
    /\ UNCHANGED <<file, mux, db, fd, revokedSeen, upgradedSeen, firstChirp, lastStored, overlapped, nops, hitVars>>

\* The status code the handler that made the store call answers with, given
\* what the call returned: postChirpsHandler, postUsersHandler,
\* postLoginHandler (ComparePasswords, and GetUser once that has succeeded),
\* updateUserCredsHandler (which does not look at what UpdateUser returns),
\* deleteChirpHandler, postPolkaWebhookHandler, getChirpIdHandler,
\* getChirpsHandler and postRevokeHandler (IsTokenRevoked, and
\* RevokeRefreshToken once the token was found not revoked).
StatusCode(name, r) ==
    CASE name \in {"CreateChirp", "CreateUser"} ->
            IF r.err # "nil" THEN 500 ELSE 201
      [] name = "ComparePasswords" ->
            IF r.err # "nil" THEN 401 ELSE 200
      [] name = "GetUser" ->
            IF r.err = "ErrUserDoesNotExist" THEN 404
            ELSE IF r.err # "nil" THEN 500 ELSE 200
      [] name = "UpdateUser" -> 200
      [] name = "DeleteChirp" ->
            IF r.err = "ErrChirpDoesNotExist" THEN 404
            ELSE IF r.err = "ErrAuthorization" THEN 403
            ELSE IF r.err # "nil" THEN 500 ELSE 200
      [] name = "UpgradeUser" ->
            IF r.err # "nil" THEN 404 ELSE 200
      [] name = "GetChirp" ->
            IF r.err # "nil" THEN 500
            ELSE IF ~r.val[2] THEN 404 ELSE 200
      [] name \in {"GetChirps", "GetChirpsFromId"} ->
            IF r.err # "nil" THEN 500 ELSE 200
      [] name = "IsTokenRevoked" ->
            IF r.err # "nil" THEN 500
            ELSE IF r.val THEN 409 ELSE 200
      [] name = "RevokeRefreshToken" ->
            IF r.err # "nil" THEN 500 ELSE 200

\* ------------------------------------------------------------ environment
\* I/O failures of the calls the store makes on the file.

\* os.Stat fails in exists with an error that is not fs.ErrNotExist (the
\* directory may not be searched, a component of the path is not a
\* directory): exists returns true, ensureDB returns nil and NewDB the DB.
StatFails(p) ==
    /\ pc[p] = "ensureDB"
    /\ pc' = [pc EXCEPT ![p] = "loadDB"]
    /\ stage' = [stage EXCEPT ![p] = "op"]
    /\ pre' = [pre EXCEPT ![p] = file]
    /\ UNCHANGED <<file, op, mux, db, fd, loaded, dbStruct, ret, prev,
                   createdIds, revokedSeen, upgradedSeen, firstChirp, lastStored,
                   deletedIds, overlapped, nops, hitVars>>

\* os.Create fails: ensureDB and NewDB return the error.
CreateFails(p) ==
    /\ pc[p] = "Create"
    /\ Finish(p, [err |-> "EIO", val |-> "none"])
    /\ UNCHANGED <<file, op, stage, mux, db, fd, loaded, dbStruct, pre, prev,
                   createdIds, revokedSeen, upgradedSeen, firstChirp, lastStored, deletedIds, overlapped, nops, hitVars>>

\* os.Open fails in loadDB: the read lock is released and the error returned.
OpenFails(p) ==
    /\ pc[p] = "loadDB"
    /\ CanRLock(mux[db[p]])
    /\ Finish(p, [err |-> "EIO", val |-> "none"])
    /\ UNCHANGED <<file, op, stage, mux, db, fd, loaded, dbStruct, pre, prev,
                   createdIds, revokedSeen, upgradedSeen, firstChirp, lastStored, deletedIds, overlapped, nops, hitVars>>

\* os.OpenFile fails in writeDB: nothing is truncated.
OpenFileFails(p) ==
    /\ pc[p] = "writeDB"
    /\ CanLock(mux[db[p]])
    /\ UNCHANGED file
    /\ AfterWrite(p, "EIO")
    /\ UNCHANGED <<op, mux, db, fd, loaded, dbStruct, prev, createdIds, revokedSeen, upgradedSeen, firstChirp, lastStored, deletedIds, overlapped, nops, hitVars>>

\* encoder.Encode fails in writeDB: the file was truncated when it was opened
\* and holds no complete structure.
EncodeFails(p) ==
    /\ pc[p] = "Encode"
    /\ file' = EmptyFile
    /\ fd' = [fd EXCEPT ![p] = "none"]
    /\ mux' = [mux EXCEPT ![db[p]] = Unlock(@)]
    /\ AfterWrite(p, "EIO")
    /\ UNCHANGED <<op, db, loaded, dbStruct, prev, createdIds, revokedSeen, upgradedSeen, firstChirp, lastStored, deletedIds, overlapped, nops, hitVars>>

\* ---------------------------------------------------------- specifications
\* The steps of a request on a path where the file is there.
StepOnFile(p) ==
    \/ ensureDB(p)
    \/ loadDB(p) \/ Decode(p)
    \/ writeDB(p) \/ Encode(p)
    \/ CreateChirp(p) \/ DeleteChirp(p)
    \/ CreateUser(p) \/ UpdateUser(p) \/ UpgradeUser(p)
    \/ RevokeRefreshToken(p) \/ RevokeChecked(p) \/ IsTokenRevoked(p)
    \/ GetChirp(p) \/ GetChirps(p) \/ GetChirpsFromId(p) \/ GetUser(p)
    \/ ComparePasswords(p)
    \/ Return(p)

Step(p) == Create(p) \/ StepOnFile(p)

Fault(p) ==
    StatFails(p) \/ CreateFails(p) \/ OpenFails(p) \/ OpenFileFails(p) \/ EncodeFails(p)

Quiet == \A q \in Procs : pc[q] = "idle"

\* A request is served while no other is.
Serve(p) == \E c \in Calls : Quiet /\ nops < MaxOps /\ NewDB(p, c)

\* The calls of the requests served concurrently.
ConcCalls ==
    {c \in Calls :
        /\ c.name \in {"CreateUser", "UpdateUser"} => c.args[Len(c.args)] = "pw1"
        /\ c.name = "UpdateUser" => c.args[2] = <<"b">>
        /\ c.name \in {"DeleteChirp", "GetChirp", "UpdateUser", "UpgradeUser",
                       "GetChirpsFromId"}
              => c.args[1] = 1
        /\ c.name = "CreateChirp" => c.args[1] \in Ids
        /\ c.name = "GetUser" => c.args[1] = <<"a">>
        /\ c.name = "ComparePasswords" => c.args = <<"pw1", <<"a">> >>
        /\ c.name = "IsTokenRevoked" => c.args[1] = "t1"}

\* A request is served, whatever the other goroutines are doing.
ServeConc(p) == \E c \in ConcCalls : nops < MaxConcOps /\ NewDB(p, c)

\* Requests served one after the other, no I/O failure.
Next == \E p \in Procs : Serve(p) \/ Step(p)

Spec == Init /\ [][Next]_vars

\* Requests served one after the other, with I/O failures.
NextIO == \E p \in Procs : Serve(p) \/ Step(p) \/ Fault(p)

SpecIO == Init /\ [][NextIO]_vars

\* Requests served concurrently, no I/O failure.
NextConc == \E p \in Procs : ServeConc(p) \/ Step(p)

SpecConc == Init /\ [][NextConc]_vars

\* The bodies postChirpsHandler is sent: up to MaxWords words with single
\* spaces between them.
Texts ==
    {Join(ws, " ") : ws \in UNION {[1..n -> Words] : n \in 0..MaxWords}}

\* postChirpsHandler has the body of the request.
ReceiveChirp(p, body) ==
    /\ pc[p] = "idle"
    /\ pc' = [pc EXCEPT ![p] = "cleanChirp"]
    /\ op' = [op EXCEPT ![p] = [name |-> "cleanChirp", args |-> <<body>>]]
    /\ nops' = nops + 1
    /\ UNCHANGED hitVars
    /\ UNCHANGED <<file, stage, mux, db, fd, loaded, dbStruct, ret, pre, prev,
                   createdIds, revokedSeen, upgradedSeen, firstChirp, lastStored,
                   deletedIds, overlapped>>

\* postChirpsHandler cleans the body before it hands it to the store.
CleanBody(p) ==
    /\ pc[p] = "cleanChirp"
    /\ Finish(p, [err |-> "nil", val |-> cleanChirp(op[p].args[1])])
    /\ UNCHANGED <<file, op, stage, mux, db, fd, loaded, dbStruct, pre, prev,
                   createdIds, revokedSeen, upgradedSeen, firstChirp, lastStored,
                   deletedIds, overlapped, nops, hitVars>>

\* One request whose body is cleaned.
NextClean ==
    \E p \in Procs : (\E body \in Texts : Quiet /\ ReceiveChirp(p, body)) \/ CleanBody(p)

SpecClean == Init /\ [][NextClean]_vars

\* The store after CreateChirp(1, "hello") on a fresh path has returned.
SeedChirp == [Id |-> 1, AuthorId |-> 1, Body |-> "hello"]

SeedStructure ==
    [InitialStructure EXCEPT !.Chirps = MapPut(EmptyMap, SeedChirp.Id, SeedChirp),
                             !.NextChirpId = Increment(SeedChirp.Id)]

InitSeeded ==
    /\ file = GobEncode(SeedStructure)
    /\ pc = [p \in Procs |-> "idle"]
    /\ op = [p \in Procs |-> NoOp]
    /\ stage = [p \in Procs |-> "none"]
    /\ mux = [p \in Procs |-> FreshMutex]
    /\ db = [p \in Procs |-> p]
    /\ fd = [p \in Procs |-> "none"]
    /\ loaded = [p \in Procs |-> ZeroStructure]
    /\ dbStruct = [p \in Procs |-> ZeroStructure]
    /\ ret = [p \in Procs |-> NoRet]
    /\ pre = [p \in Procs |-> NoFile]
    /\ prev = [name |-> "CreateChirp", args |-> <<SeedChirp.AuthorId, SeedChirp.Body>>,
               err |-> "nil", val |-> SeedChirp]
    /\ createdIds = <<SeedChirp.Id>>
    /\ revokedSeen = {}
    /\ upgradedSeen = {}
    /\ firstChirp = SeedStructure.Chirps
    /\ lastStored = SeedStructure
    /\ deletedIds = {}
    /\ overlapped = FALSE
    /\ nops = 0
    /\ fileserverHits = 0
    /\ hitsRead = [p \in Procs |-> 0]
    /\ appServed = 0

\* Requests served concurrently, no I/O failure, on the store that holds the
\* first chirp.
NextRace == \E p \in Procs : ServeConc(p) \/ StepOnFile(p)

SpecRace == InitSeeded /\ [][NextRace]_vars

\* The calls the goroutines make on the DB they share: RevokeRefreshToken
\* loads twice and stores, ComparePasswords loads once.
SharedCalls ==
    {c \in Calls :
        \/ c.name = "RevokeRefreshToken"
        \/ c.name = "ComparePasswords" /\ c.args = <<"pw1", <<"a">> >>}

\* NewDB on a fresh path has returned its DB, and every goroutine holds that
\* one DB.
InitShared ==
    /\ file = GobEncode(InitialStructure)
    /\ pc = [p \in Procs |-> "idle"]
    /\ op = [p \in Procs |-> NoOp]
    /\ stage = [p \in Procs |-> "none"]
    /\ mux = [p \in Procs |-> FreshMutex]
    /\ db = [p \in Procs |-> CHOOSE q \in Procs : TRUE]
    /\ fd = [p \in Procs |-> "none"]
    /\ loaded = [p \in Procs |-> ZeroStructure]
    /\ dbStruct = [p \in Procs |-> ZeroStructure]
    /\ ret = [p \in Procs |-> NoRet]
    /\ pre = [p \in Procs |-> NoFile]
    /\ prev = [name |-> "none", args |-> <<>>, err |-> "none", val |-> "none"]
    /\ createdIds = <<>>
    /\ revokedSeen = {}
    /\ upgradedSeen = {}
    /\ firstChirp = EmptyMap
    /\ lastStored = InitialStructure
    /\ deletedIds = {}
    /\ overlapped = FALSE
    /\ nops = 0
    /\ fileserverHits = 0
    /\ hitsRead = [p \in Procs |-> 0]
    /\ appServed = 0

\* A goroutine calls an operation on the DB it holds: the operation starts
\* with db.loadDB().
Call(p, c) ==
    /\ pc[p] = "idle"
    /\ nops < MaxSharedOps
    /\ nops' = nops + 1
    /\ UNCHANGED hitVars
    /\ op' = [op EXCEPT ![p] = c]
    /\ pc' = [pc EXCEPT ![p] = "loadDB"]
    /\ stage' = [stage EXCEPT ![p] = "op"]
    /\ pre' = [pre EXCEPT ![p] = file]
    /\ overlapped' = (overlapped \/ \E q \in Procs : pc[q] # "idle")
    /\ UNCHANGED <<file, mux, db, fd, loaded, dbStruct, ret, prev, createdIds,
                   revokedSeen, upgradedSeen, firstChirp, lastStored, deletedIds>>

\* The steps of the operations called on the shared DB.
StepShared(p) ==
    \/ loadDB(p)
    \/ Decode(p)
    \/ writeDB(p)
    \/ Encode(p)
    \/ RevokeRefreshToken(p)
    \/ RevokeChecked(p)
    \/ ComparePasswords(p)
    \/ Return(p)

NextShared == \E p \in Procs : (\E c \in SharedCalls : Call(p, c)) \/ StepShared(p)

\* Goroutines calling operations on one DB; the scheduler runs every
\* goroutine that can take a step (each step of a goroutine moves its pc).
SpecShared ==
    InitShared /\ [][NextShared]_vars /\ \A p \in Procs : WF_pc(StepShared(p))

\* The longest body postChirpsHandler accepts: len(params.Body) > 140 is
\* answered with 400. A character of the model is one byte of the body.
MaxChirpLen == 140

Filler(n) == [i \in 1..n |-> "x"]

\* The words of the bodies sent to POST /chirps: with the two long words a
\* body of exactly MaxChirpLen characters that holds a banned word and bodies
\* of MaxChirpLen + 1 characters and more are among them.
PostWords ==
    { <<"O", "h">>, <<"F", "O", "R", "N", "A", "X">>,
      <<"k", "e", "r", "f", "u", "f", "f", "l", "e", "!">>,
      Filler(MaxChirpLen - Len(<<"F", "O", "R", "N", "A", "X">>) - 1),
      Filler(MaxChirpLen - Len(<<"F", "O", "R", "N", "A", "X">>)) }

PostTexts ==
    {Join(ws, " ") : ws \in UNION {[1..n -> PostWords] : n \in 0..MaxWords}}

\* Mutant of TooLong: no body is too long.
TooLongNever(body) == FALSE

\* The length test of postChirpsHandler.
TooLong(body) == Len(body) > MaxChirpLen

\* postChirpsHandler has decoded the request: a body that is too long is
\* answered with 400 and the handler returns.
postChirpsHandler(p, body) ==
    /\ pc[p] = "idle"
    /\ nops' = nops + 1
    /\ UNCHANGED hitVars
    /\ op' = [op EXCEPT ![p] = [name |-> "postChirps", args |-> <<body>>]]
    /\ IF TooLong(body)
       THEN Finish(p, [err |-> "400", val |-> "none"])
       ELSE /\ pc' = [pc EXCEPT ![p] = "cleanChirp"]
            /\ UNCHANGED ret
    /\ UNCHANGED <<file, stage, mux, db, fd, loaded, dbStruct, pre, prev,
                   createdIds, revokedSeen, upgradedSeen, firstChirp, lastStored,
                   deletedIds, overlapped>>

\* postChirpsHandler calls NewDB and db.CreateChirp with the cleaned body.
CallCreateChirp(p) ==
    /\ pc[p] = "done"
    /\ op[p].name = "postChirps"
    /\ ret[p].err = "nil"
    /\ \E a \in Ids :
          op' = [op EXCEPT ![p] = [name |-> "CreateChirp", args |-> <<a, ret[p].val>>]]
    /\ ret' = [ret EXCEPT ![p] = NoRet]
    /\ db' = [db EXCEPT ![p] = p]
    /\ mux' = [mux EXCEPT ![p] = FreshMutex]
    /\ pc' = [pc EXCEPT ![p] = "ensureDB"]
    /\ stage' = [stage EXCEPT ![p] = "init"]
    /\ UNCHANGED <<file, fd, loaded, dbStruct, pre, prev, createdIds, revokedSeen,
                   upgradedSeen, firstChirp, lastStored, deletedIds, overlapped, nops, hitVars>>

\* The steps of a POST /chirps request.
StepPost(p) ==
    \/ CleanBody(p)
    \/ CallCreateChirp(p)
    \/ ensureDB(p)
    \/ Create(p)
    \/ loadDB(p)
    \/ Decode(p)
    \/ CreateChirp(p)
    \/ writeDB(p)
    \/ Encode(p)

\* One POST /chirps request on a fresh path.
NextPost ==
    \E p \in Procs :
        (\E body \in PostTexts : Quiet /\ postChirpsHandler(p, body)) \/ StepPost(p)

SpecPost == Init /\ [][NextPost]_vars

\* A request for /app or /app/* enters middlewareMetricsInc:
\* cfg.fileserverHits++ reads the counter. Nothing orders the read and the
\* write of the ++ of one goroutine with those of another.
middlewareMetricsInc(p) ==
    /\ pc[p] = "idle"
    /\ nops < MaxHits
    /\ nops' = nops + 1
    /\ hitsRead' = [hitsRead EXCEPT ![p] = fileserverHits]
    /\ pc' = [pc EXCEPT ![p] = "fileserverHits++"]
    /\ UNCHANGED <<file, op, stage, mux, db, fd, loaded, dbStruct, ret, pre, prev,
                   createdIds, revokedSeen, upgradedSeen, firstChirp, lastStored,
                   deletedIds, overlapped, fileserverHits, appServed>>

\* cfg.fileserverHits++ writes the value it read plus one, and the file
\* server serves the request.
ServeHTTP(p) ==
    /\ pc[p] = "fileserverHits++"
    /\ fileserverHits' = hitsRead[p] + 1
    /\ appServed' = appServed + 1
    /\ pc' = [pc EXCEPT ![p] = "idle"]
    /\ UNCHANGED <<file, op, stage, mux, db, fd, loaded, dbStruct, ret, pre, prev,
                   createdIds, revokedSeen, upgradedSeen, firstChirp, lastStored,
                   deletedIds, overlapped, nops, hitsRead>>

\* GET /api/reset: cfg.fileserverHits = 0.
resetHandler(p) ==
    /\ pc[p] = "idle"
    /\ nops < MaxHits
    /\ nops' = nops + 1
    /\ fileserverHits' = 0
    /\ appServed' = 0
    /\ UNCHANGED <<file, pc, op, stage, mux, db, fd, loaded, dbStruct, ret, pre, prev,
                   createdIds, revokedSeen, upgradedSeen, firstChirp, lastStored,
                   deletedIds, overlapped, hitsRead>>

\* Requests for /app and for /api/reset, each served in a goroutine of its own.
NextHits == \E p \in Procs : middlewareMetricsInc(p) \/ ServeHTTP(p) \/ resetHandler(p)

SpecHits == Init /\ [][NextHits]_vars

\* ------------------------------------------------------------------ claims
\* The goroutine has the return values of the named operation in hand.
Done(p, name) == pc[p] = "done" /\ op[p].name = name

\* C1: in requests served one after the other, the ids that successive
\* successful CreateChirp calls return are strictly increasing, whatever
\* chirps were deleted in between.
C1_ChirpIdsStrictlyIncreasing ==
    \A i, j \in 1..Len(createdIds) : i < j => createdIds[i] < createdIds[j]

\* Two chirps were created, the first was deleted before the second was made.
C1_Witness ==
    /\ Len(createdIds) = 2
    /\ prev.name = "CreateChirp"
    /\ Decodes(file)
    /\ createdIds[1] \notin DOMAIN GobDecode(file).Chirps
    /\ createdIds[2] \in DOMAIN GobDecode(file).Chirps

\* C2: a CreateUser that directly follows a successful CreateUser with the
\* same normalized e-mail fails with ErrUserAlreadyExists and adds no user.
C2_SecondCreateUserFails ==
    \A p \in Procs :
        ( /\ Done(p, "CreateUser")
          /\ prev.name = "CreateUser"
          /\ prev.err = "nil"
          /\ normalizeEmail(prev.args[1]) = normalizeEmail(op[p].args[1]) )
        => /\ ret[p].err = "ErrUserAlreadyExists"
           /\ file = pre[p]

\* C3: no two distinct user records of the persisted snapshot have the same
\* normalized e-mail.
C3_EmailsUnique ==
    Decodes(file) =>
        LET users == GobDecode(file).Users
        IN \A i, j \in DOMAIN users :
              i # j => normalizeEmail(users[i].Email) # normalizeEmail(users[j].Email)

\* C4: DeleteChirp on an existing chirp of another author returns
\* ErrAuthorization and leaves the file as it was, and a GetChirp of that id
\* that follows still finds the chirp.
C4_ForeignDeleteForbidden ==
    \A p \in Procs :
        /\ ( /\ Done(p, "DeleteChirp")
             /\ Decodes(pre[p])
             /\ op[p].args[1] \in DOMAIN GobDecode(pre[p]).Chirps
             /\ GobDecode(pre[p]).Chirps[op[p].args[1]].AuthorId # op[p].args[2] )
           => /\ ret[p].err = "ErrAuthorization"
              /\ file = pre[p]
        /\ ( /\ Done(p, "GetChirp")
             /\ prev.name = "DeleteChirp"
             /\ prev.err = "ErrAuthorization"
             /\ prev.args[1] = op[p].args[1] )
           => /\ ret[p].err = "nil"
              /\ ret[p].val[2] = TRUE
              /\ ret[p].val[1].Id = op[p].args[1]
              /\ ret[p].val[1].AuthorId # prev.args[2]

\* A chirp was refused to a requester who is not its author and then fetched.
C4_Witness ==
    \E p \in Procs :
        /\ Done(p, "GetChirp")
        /\ prev.name = "DeleteChirp"
        /\ prev.err = "ErrAuthorization"
        /\ prev.args[1] = op[p].args[1]
        /\ ret[p].val[2] = TRUE

\* C5: DeleteChirp returns ErrChirpDoesNotExist and changes nothing when no
\* chirp has the id; called by the author of an existing chirp it removes that
\* chirp and nothing else: the other chirps, the users, the revoked tokens
\* and both counters stay.
C5_DeleteChirpFrame ==
    \A p \in Procs :
        (Done(p, "DeleteChirp") /\ Decodes(pre[p])) =>
            LET s == GobDecode(pre[p])
                id == op[p].args[1]
            IN IF id \notin DOMAIN s.Chirps
               THEN ret[p].err = "ErrChirpDoesNotExist" /\ file = pre[p]
               ELSE s.Chirps[id].AuthorId = op[p].args[2] =>
                      /\ ret[p].err = "nil"
                      /\ Decodes(file)
                      /\ GobDecode(file) =
                            [s EXCEPT !.Chirps = [c \in DOMAIN s.Chirps \ {id} |-> s.Chirps[c]]]

\* An author deleted one of two chirps; the other is still there.
C5_Witness ==
    \E p \in Procs :
        /\ Done(p, "DeleteChirp")
        /\ ret[p].err = "nil"
        /\ Decodes(pre[p])
        /\ Cardinality(DOMAIN GobDecode(pre[p]).Chirps) = 2
        /\ Cardinality(DOMAIN GobDecode(file).Chirps) = 1

\* C6: RevokeRefreshToken succeeds on a token not yet revoked and revokes it;
\* a second RevokeRefreshToken of the token fails with ErrTokenAlreadyRevoked;
\* IsTokenRevoked answers true after either call.
C6_RevokeTwice ==
    \A p \in Procs :
        /\ ( /\ Done(p, "RevokeRefreshToken")
             /\ Decodes(pre[p])
             /\ op[p].args[1] \notin DOMAIN GobDecode(pre[p]).RevokedRefreshTokens )
           => /\ ret[p].err = "nil"
              /\ Decodes(file)
              /\ op[p].args[1] \in DOMAIN GobDecode(file).RevokedRefreshTokens
        /\ ( /\ Done(p, "RevokeRefreshToken")
             /\ prev.name = "RevokeRefreshToken"
             /\ prev.err = "nil"
             /\ prev.args[1] = op[p].args[1] )
           => /\ ret[p].err = "ErrTokenAlreadyRevoked"
              /\ file = pre[p]
        /\ ( /\ Done(p, "IsTokenRevoked")
             /\ prev.name = "RevokeRefreshToken"
             /\ prev.err \in {"nil", "ErrTokenAlreadyRevoked"}
             /\ prev.args[1] = op[p].args[1] )
           => /\ ret[p].err = "nil"
              /\ ret[p].val = TRUE

\* A token was revoked, revoked again with an error, and then asked about.
C6_Witness ==
    \E p \in Procs :
        /\ Done(p, "IsTokenRevoked")
        /\ prev.name = "RevokeRefreshToken"
        /\ prev.err = "ErrTokenAlreadyRevoked"
        /\ prev.args[1] = op[p].args[1]
        /\ ret[p].val = TRUE

\* The tokens the persisted snapshot holds as revoked.
RevokedInFile == DOMAIN GobDecode(file).RevokedRefreshTokens

\* C7 as stated: a token once present in RevokedRefreshTokens of the persisted
\* snapshot is present in every later persisted snapshot, also when the load
\* and store steps of concurrent callers interleave.
C7_RevocationMonotonic == Decodes(file) => revokedSeen \subseteq RevokedInFile

\* C7 amended: the same for requests served one after the other, none
\* overlapping another.
C7_RevocationMonotonicSequential ==
    (~overlapped /\ Decodes(file)) => revokedSeen \subseteq RevokedInFile

\* A token was revoked and a later request, overlapping none, stored a chirp.
C7_Witness ==
    /\ ~overlapped
    /\ prev.name = "CreateChirp"
    /\ prev.err = "nil"
    /\ revokedSeen # {}
    /\ Decodes(file)
    /\ DOMAIN GobDecode(file).Chirps # {}
    /\ revokedSeen \subseteq RevokedInFile

\* C8: while a goroutine has the file open for writing (writeDB), no other
\* goroutine has it open for writing or for reading (loadDB).
C8_WritersExclusive ==
    \A p, q \in Procs : (p # q /\ fd[p] = "write") => fd[q] = "none"

\* C9: an operation holds no lock between the return of loadDB and the call
\* of writeDB, and the id CreateUser or CreateChirp returns is the counter it
\* loaded; so two concurrent calls that load the same counter return the same id.
C9_LoadStoreNotAtomic ==
    \A p \in Procs :
        /\ pc[p] \in {"body", "checked", "writeDB"} => mux[db[p]] = FreshMutex
        /\ (Done(p, "CreateUser") /\ ret[p].err = "nil")
              => ret[p].val.Id = loaded[p].NextUserId
        /\ (Done(p, "CreateChirp") /\ ret[p].err = "nil")
              => ret[p].val.Id = loaded[p].NextChirpId

\* Two concurrent CreateUser calls loaded the same counter and returned the same id.
C9_Witness ==
    \E p, q \in Procs :
        /\ p # q
        /\ Done(p, "CreateUser") /\ ret[p].err = "nil"
        /\ Done(q, "CreateUser") /\ ret[q].err = "nil"
        /\ loaded[p].NextUserId = loaded[q].NextUserId
        /\ ret[p].val.Id = ret[q].val.Id

\* The same for two concurrent CreateChirp calls.
SameChirpIdTwice ==
    \E p, q \in Procs :
        /\ p # q
        /\ Done(p, "CreateChirp") /\ ret[p].err = "nil"
        /\ Done(q, "CreateChirp") /\ ret[q].err = "nil"
        /\ loaded[p].NextChirpId = loaded[q].NextChirpId
        /\ ret[p].val.Id = ret[q].val.Id

Mutating ==
    {"CreateChirp", "DeleteChirp", "CreateUser", "UpdateUser", "UpgradeUser",
     "RevokeRefreshToken"}

\* C10: when a mutating operation, run with no concurrent caller, has
\* returned, the file either holds the fully mutated snapshot, the store
\* having completed, or decodes to the snapshot from before the operation.
C10_NoPartialMutation ==
    \A p \in Procs :
        (pc[p] = "done" /\ op[p].name \in Mutating /\ stage[p] = "op" /\ Decodes(pre[p]))
        => \/ file = pre[p]
           \/ ret[p].err = "nil" /\ file = GobEncode(dbStruct[p])

\* C11: when CreateChirp or CreateUser has returned an entity and no error,
\* the file decodes and holds that entity under its id; a failed writeDB of
\* the call is therefore reported as an error with no entity.
C11_CreateReportsWriteFailure ==
    \A p \in Procs :
        /\ (Done(p, "CreateChirp") /\ ret[p].err = "nil")
           => /\ Decodes(file)
              /\ ret[p].val.Id \in DOMAIN GobDecode(file).Chirps
              /\ GobDecode(file).Chirps[ret[p].val.Id] = ret[p].val
        /\ (Done(p, "CreateUser") /\ ret[p].err = "nil")
           => /\ Decodes(file)
              /\ ret[p].val.Id \in DOMAIN GobDecode(file).Users
              /\ GobDecode(file).Users[ret[p].val.Id] = ret[p].val

\* C12: initialisation is idempotent. When NewDB is called while the file is
\* there, ensureDB returns no error (the request goes on to its operation) and
\* the file is left as it was, existing and with the same content.
C12_InitIdempotent ==
    [][ \A p \in Procs :
          (pc[p] = "ensureDB" /\ file.kind # "absent" /\ pc'[p] # "ensureDB")
          => /\ pc'[p] = "loadDB"
             /\ stage'[p] = "op"
             /\ ret'[p] = NoRet
             /\ file' = file ]_vars

\* NewDB has returned without error on a snapshot that holds a chirp, and the
\* file is the one the call found.
C12_Witness ==
    \E p \in Procs :
        /\ pc[p] = "loadDB" /\ stage[p] = "op"
        /\ nops >= 2
        /\ Decodes(file)
        /\ GobDecode(file).Chirps # EmptyMap
        /\ file = pre[p]

\* C13: the first NewDB, on a path with no file, leaves a snapshot with both
\* counters at 1 and three maps without entries; and whatever operations
\* follow one after the other, the structure a successful loadDB yields has
\* its three maps made, none of them nil.
C13_MapsInitialised ==
    \A p \in Procs :
        /\ (nops = 1 /\ pc[p] = "loadDB" /\ stage[p] = "op")
           => /\ Decodes(file)
              /\ GobDecode(file).NextChirpId = 1
              /\ GobDecode(file).NextUserId = 1
              /\ DOMAIN GobDecode(file).Chirps = {}
              /\ DOMAIN GobDecode(file).Users = {}
              /\ DOMAIN GobDecode(file).RevokedRefreshTokens = {}
        /\ (pc[p] \in {"body", "checked"}) => loaded[p].NilMaps = {}

\* A snapshot whose chirp was deleted, so that the map of chirps is stored
\* without entries, has been loaded by the next operation.
C13_Witness ==
    \E p \in Procs :
        /\ pc[p] = "body"
        /\ prev.name = "DeleteChirp" /\ prev.err = "nil"
        /\ loaded[p].Chirps = EmptyMap
        /\ loaded[p].NilMaps = {}

\* C14: GetChirpsFromId(a) returns exactly the chirps of the snapshot whose
\* AuthorId is a, each once, and GetChirps returns exactly all chirps, each
\* once. On a fresh store CreateChirp(7, "hello") returns the chirp with Id 1,
\* which is then the whole list of author 7, while the list of author 99 has
\* no chirp.
C14_ListingContent ==
    \A p \in Procs :
        /\ (Done(p, "GetChirpsFromId") /\ Decodes(pre[p]))
           => LET chirps == GobDecode(pre[p]).Chirps
                  wanted == {chirps[c] : c \in {d \in DOMAIN chirps :
                                               chirps[d].AuthorId = op[p].args[1]}}
              IN /\ ret[p].err = "nil"
                 /\ {ret[p].val[i] : i \in 1..Len(ret[p].val)} = wanted
                 /\ Len(ret[p].val) = Cardinality(wanted)
        /\ (Done(p, "GetChirps") /\ Decodes(pre[p]))
           => LET chirps == GobDecode(pre[p]).Chirps
                  wanted == {chirps[c] : c \in DOMAIN chirps}
              IN /\ ret[p].err = "nil"
                 /\ {ret[p].val[i] : i \in 1..Len(ret[p].val)} = wanted
                 /\ Len(ret[p].val) = Cardinality(wanted)
        /\ (nops = 1 /\ Done(p, "CreateChirp") /\ op[p].args = <<7, "hello">>)
           => /\ ret[p].err = "nil"
              /\ ret[p].val = [Id |-> 1, AuthorId |-> 7, Body |-> "hello"]
        /\ (nops = 2 /\ prev.name = "CreateChirp" /\ prev.args = <<7, "hello">>
                /\ Done(p, "GetChirpsFromId"))
           => ret[p].val = IF op[p].args[1] = 7
                           THEN << [Id |-> 1, AuthorId |-> 7, Body |-> "hello"] >>
                           ELSE << >>

\* A listing for author 7 has returned one of two chirps the store holds.
C14_Witness ==
    \E p \in Procs :
        /\ Done(p, "GetChirpsFromId")
        /\ op[p].args[1] = 7
        /\ Len(ret[p].val) = 1
        /\ Cardinality(DOMAIN GobDecode(pre[p]).Chirps) = 2

\* C15: the sequence GetChirps and GetChirpsFromId return is in ascending
\* order of chirp id when no sort order is asked for.
C15_ListingAscending ==
    \A p \in Procs :
        (pc[p] = "done" /\ op[p].name \in {"GetChirps", "GetChirpsFromId"}
            /\ ret[p].err = "nil")
        => \A i, j \in 1..Len(ret[p].val) :
              i < j => ret[p].val[i].Id < ret[p].val[j].Id

\* C16: when CreateUser(e, p) has succeeded, the GetUser(e') that follows,
\* for any e' with the same normalized e-mail as e, returns the user that
\* call created; and GetUser returns ErrUserDoesNotExist when no user of the
\* snapshot has the normalized e-mail looked up.
C16_LookupNormalized ==
    \A p \in Procs :
        (Done(p, "GetUser") /\ Decodes(pre[p]))
        => LET s == GobDecode(pre[p])
               n == normalizeEmail(op[p].args[1])
           IN /\ ( /\ prev.name = "CreateUser" /\ prev.err = "nil"
                   /\ normalizeEmail(prev.args[1]) = n )
                 => /\ ret[p].err = "nil"
                    /\ ret[p].val.Id = s.NextUserId - 1
                    /\ ret[p].val = s.Users[s.NextUserId - 1]
                    /\ ret[p].val.Email = n
              /\ (\A id \in DOMAIN s.Users : normalizeEmail(s.Users[id].Email) # n)
                 => ret[p].err = "ErrUserDoesNotExist"

\* C17: every user record of the persisted snapshot has its Email in
\* normalized form, whatever e-mails CreateUser and UpdateUser were given; and
\* the GetUser that follows a successful UpdateUser, looking up the e-mail
\* that UpdateUser was given, finds a user.
C17_StoredEmailsNormalized ==
    /\ Decodes(file) =>
          \A id \in DOMAIN GobDecode(file).Users :
             GobDecode(file).Users[id].Email
                = normalizeEmail(GobDecode(file).Users[id].Email)
    /\ \A p \in Procs :
          ( /\ Done(p, "GetUser")
            /\ prev.name = "UpdateUser" /\ prev.err = "nil"
            /\ op[p].args[1] = prev.args[2] )
          => ret[p].err = "nil"

\* C18: UpgradeUser returns ErrUserDoesNotExist and leaves the file as it was
\* when no user has the id; on a user that exists it succeeds, on the second
\* call as on the first, and leaves that user with IsChirpyRed true and its
\* Id, Email and Password as they were, nothing else changed.
C18_UpgradeUser ==
    \A p \in Procs :
        (Done(p, "UpgradeUser") /\ Decodes(pre[p]))
        => LET s == GobDecode(pre[p])
               id == op[p].args[1]
           IN IF id \notin DOMAIN s.Users
              THEN ret[p].err = "ErrUserDoesNotExist" /\ file = pre[p]
              ELSE /\ ret[p].err = "nil"
                   /\ Decodes(file)
                   /\ id \in DOMAIN GobDecode(file).Users
                   /\ GobDecode(file).Users[id].IsChirpyRed = TRUE
                   /\ GobDecode(file).Users[id].Id = s.Users[id].Id
                   /\ GobDecode(file).Users[id].Email = s.Users[id].Email
                   /\ GobDecode(file).Users[id].Password = s.Users[id].Password
                   /\ \A f \in {"NextChirpId", "NextUserId", "Chirps",
                                "RevokedRefreshTokens"} : GobDecode(file)[f] = s[f]
                   /\ DOMAIN GobDecode(file).Users = DOMAIN s.Users
                   /\ \A u \in DOMAIN s.Users \ {id} :
                         GobDecode(file).Users[u] = s.Users[u]

\* UpgradeUser has succeeded on a user that an earlier call had upgraded.
C18_Witness ==
    \E p \in Procs :
        /\ Done(p, "UpgradeUser") /\ ret[p].err = "nil"
        /\ prev.name = "UpgradeUser" /\ prev.err = "nil"
        /\ prev.args = op[p].args
        /\ GobDecode(pre[p]).Users[op[p].args[1]].IsChirpyRed = TRUE
        /\ GobDecode(file).Users[op[p].args[1]].IsChirpyRed = TRUE

\* C19: the upgrade flag is one-way. CreateUser makes the user with
\* IsChirpyRed false, and a user that some stored snapshot held with
\* IsChirpyRed true is held with IsChirpyRed true by every later snapshot,
\* whatever operations are served one after the other, UpdateUser on that
\* user included.
C19_UpgradeOneWay ==
    /\ \A p \in Procs :
          (Done(p, "CreateUser") /\ ret[p].err = "nil")
          => /\ ret[p].val.IsChirpyRed = FALSE
             /\ Decodes(file)
             /\ GobDecode(file).Users[ret[p].val.Id].IsChirpyRed = FALSE
    /\ Decodes(file) => upgradedSeen \subseteq UpgradedInFile(file)

\* UpdateUser has succeeded on a user that was upgraded before, and the
\* snapshot still holds the user as upgraded.
C19_Witness ==
    /\ Quiet
    /\ prev.name = "UpdateUser" /\ prev.err = "nil"
    /\ prev.args[1] \in upgradedSeen
    /\ Decodes(file)
    /\ prev.args[1] \in UpgradedInFile(file)

\* C20: UpdateUser returns ErrUserDoesNotExist and leaves the file as it was
\* when no user has the id; otherwise it succeeds and the stored snapshot
\* differs from the one before in that user's e-mail and password hash only:
\* the user keeps Id and IsChirpyRed, has the e-mail given and a hash of the
\* password given, and the other users, the chirps, the revoked tokens and
\* both counters are as they were.
C20_UpdateUserFrame ==
    \A p \in Procs :
        (Done(p, "UpdateUser") /\ Decodes(pre[p]))
        => LET s == GobDecode(pre[p])
               id == op[p].args[1]
           IN IF id \notin DOMAIN s.Users
              THEN ret[p].err = "ErrUserDoesNotExist" /\ file = pre[p]
              ELSE /\ ret[p].err = "nil"
                   /\ Decodes(file)
                   /\ DOMAIN GobDecode(file).Users = DOMAIN s.Users
                   /\ GobDecode(file).Users[id].Id = id
                   /\ GobDecode(file).Users[id].IsChirpyRed = s.Users[id].IsChirpyRed
                   /\ normalizeEmail(GobDecode(file).Users[id].Email)
                         = normalizeEmail(op[p].args[2])
                   /\ CompareHashAndPassword(GobDecode(file).Users[id].Password,
                                             op[p].args[3])
                   /\ \A u \in DOMAIN s.Users \ {id} :
                         GobDecode(file).Users[u] = s.Users[u]
                   /\ \A f \in {"NextChirpId", "NextUserId", "Chirps",
                                "RevokedRefreshTokens"} : GobDecode(file)[f] = s[f]

\* UpdateUser has changed the e-mail and the password of one of two users.
C20_Witness ==
    \E p \in Procs :
        /\ Done(p, "UpdateUser") /\ ret[p].err = "nil"
        /\ Cardinality(DOMAIN GobDecode(pre[p]).Users) = 2
        /\ GobDecode(file).Users[op[p].args[1]].Email
              # GobDecode(pre[p]).Users[op[p].args[1]].Email
        /\ GobDecode(file).Users[op[p].args[1]].Password
              # GobDecode(pre[p]).Users[op[p].args[1]].Password

\* C21: ComparePasswords never changes the file; it returns
\* ErrUserDoesNotExist when no user of the snapshot has the normalized e-mail
\* looked up; and when it follows a successful CreateUser or UpdateUser that
\* set password w for the e-mail looked up (up to normalization), it returns
\* no error when the candidate is w and the mismatch error when it is not.
C21_ComparePasswords ==
    \A p \in Procs :
        (Done(p, "ComparePasswords") /\ Decodes(pre[p]))
        => LET s == GobDecode(pre[p])
               n == normalizeEmail(op[p].args[2])
               set == IF prev.name = "CreateUser" THEN prev.args[2] ELSE prev.args[3]
               email == IF prev.name = "CreateUser" THEN prev.args[1] ELSE prev.args[2]
           IN /\ file = pre[p]
              /\ (\A id \in DOMAIN s.Users : normalizeEmail(s.Users[id].Email) # n)
                 => ret[p].err = "ErrUserDoesNotExist"
              /\ ( /\ prev.name \in {"CreateUser", "UpdateUser"}
                   /\ prev.err = "nil"
                   /\ normalizeEmail(email) = n )
                 => ret[p].err = IF op[p].args[1] = set
                                 THEN "nil"
                                 ELSE "ErrMismatchedHashAndPassword"

\* C22: in requests served one after the other, when an operation has
\* returned, the counters of the snapshot are not below those from before the
\* call: a successful CreateChirp has raised NextChirpId by exactly 1 and
\* returned the old value as the id, a successful CreateUser has raised
\* NextUserId by exactly 1 and returned the old value as the id, and every
\* other counter, and both counters after any other or failed operation, are
\* as they were.
C22_CountersOnlyIncrease ==
    \A p \in Procs :
        (pc[p] = "done" /\ stage[p] = "op" /\ Decodes(pre[p]))
        => LET s == GobDecode(pre[p])
               ok == ret[p].err = "nil"
           IN /\ Decodes(file)
              /\ GobDecode(file).NextChirpId >= s.NextChirpId
              /\ GobDecode(file).NextUserId >= s.NextUserId
              /\ GobDecode(file).NextChirpId =
                    IF op[p].name = "CreateChirp" /\ ok
                    THEN s.NextChirpId + 1 ELSE s.NextChirpId
              /\ GobDecode(file).NextUserId =
                    IF op[p].name = "CreateUser" /\ ok
                    THEN s.NextUserId + 1 ELSE s.NextUserId
              /\ (op[p].name = "CreateChirp" /\ ok) => ret[p].val.Id = s.NextChirpId
              /\ (op[p].name = "CreateUser" /\ ok) => ret[p].val.Id = s.NextUserId

\* A second user has been created in a store that a chirp was created and
\* deleted in.
C22_Witness ==
    \E p \in Procs :
        /\ Done(p, "CreateUser") /\ ret[p].err = "nil"
        /\ prev.name = "DeleteChirp" /\ prev.err = "nil"
        /\ GobDecode(pre[p]).NextChirpId = 2
        /\ GobDecode(file).NextChirpId = 2
        /\ GobDecode(file).NextUserId = 2
        /\ ret[p].val.Id = 1

\* The chirps of the file are the chirps first stored under their ids, and a
\* GetChirp that finds a chirp returns the chirp first stored under the id.
ChirpsAsFirstStored ==
    /\ Decodes(file) =>
          \A id \in DOMAIN GobDecode(file).Chirps :
             /\ id \in DOMAIN firstChirp
             /\ GobDecode(file).Chirps[id].AuthorId = firstChirp[id].AuthorId
             /\ GobDecode(file).Chirps[id].Body = firstChirp[id].Body
    /\ \A p \in Procs :
          (Done(p, "GetChirp") /\ ret[p].err = "nil" /\ ret[p].val[2])
          => /\ ret[p].val[1].AuthorId = firstChirp[op[p].args[1]].AuthorId
             /\ ret[p].val[1].Body = firstChirp[op[p].args[1]].Body

\* C23 as stated: a chirp id has the same AuthorId and Body in every state it
\* is present in, from its creation on, concurrent callers included.
C23_AuthorImmutable == ChirpsAsFirstStored

\* C23 for requests served one after the other: a chirp id has the same
\* AuthorId and Body in every state it is present in, from its creation on.
C23_AuthorImmutableSequential == ~overlapped => ChirpsAsFirstStored

\* Two more chirps were created, one after the other, since the first chirp
\* was, and the first chirp is held as it was stored.
C23_Witness ==
    /\ ~overlapped
    /\ Quiet
    /\ nops = MaxConcOps
    /\ Decodes(file)
    /\ SeedChirp.Id \in DOMAIN GobDecode(file).Chirps
    /\ Cardinality(DOMAIN GobDecode(file).Chirps) = 3
    /\ GobDecode(file).Chirps[SeedChirp.Id] = firstChirp[SeedChirp.Id]

\* No chirp id that a DeleteChirp call has returned success for is in the
\* file, is found by a GetChirp or is in a list returned.
DeletedStayDeleted ==
    /\ Decodes(file) => deletedIds \cap DOMAIN GobDecode(file).Chirps = {}
    /\ \A p \in Procs :
          /\ (Done(p, "GetChirp") /\ ret[p].err = "nil" /\ op[p].args[1] \in deletedIds)
             => ret[p].val[2] = FALSE
          /\ (pc[p] = "done" /\ op[p].name \in {"GetChirps", "GetChirpsFromId"}
                /\ ret[p].err = "nil")
             => \A i \in 1..Len(ret[p].val) : ret[p].val[i].Id \notin deletedIds

\* C24 as stated: once DeleteChirp(id, author) has returned success, the id
\* is not found and not listed in any later state, concurrent callers that
\* loaded the snapshot before the deletion was stored included.
C24_DeletionTerminal == DeletedStayDeleted

\* C24 for requests served one after the other: once DeleteChirp(id, author)
\* has returned success, the id is not found and not listed in any later
\* state.
C24_DeletionTerminalSequential == ~overlapped => DeletedStayDeleted

\* The first chirp was deleted by its author and the GetChirp of the next
\* request does not find it.
C24_Witness ==
    \E p \in Procs :
        /\ ~overlapped
        /\ deletedIds = {SeedChirp.Id}
        /\ Done(p, "GetChirp")
        /\ op[p].args[1] = SeedChirp.Id
        /\ ret[p].val[2] = FALSE

\* C25: when CreateChirp has returned chirp c without error, the GetChirp(c.Id)
\* of the next request finds exactly c and the GetChirps of the next request
\* lists c; when CreateUser has returned user u without error, the GetUser of
\* the next request with the same e-mail returns exactly u.
C25_ReadAfterWrite ==
    \A p \in Procs :
        /\ ( /\ prev.name = "CreateChirp" /\ prev.err = "nil"
             /\ Done(p, "GetChirp") /\ op[p].args[1] = prev.val.Id )
           => /\ ret[p].err = "nil"
              /\ ret[p].val = <<prev.val, TRUE>>
        /\ ( /\ prev.name = "CreateChirp" /\ prev.err = "nil"
             /\ Done(p, "GetChirps") )
           => /\ ret[p].err = "nil"
              /\ \E i \in 1..Len(ret[p].val) : ret[p].val[i] = prev.val
        /\ ( /\ prev.name = "CreateUser" /\ prev.err = "nil"
             /\ Done(p, "GetUser") /\ op[p].args[1] = prev.args[1] )
           => /\ ret[p].err = "nil"
              /\ ret[p].val = prev.val

\* An operation that has stored the structure as it loaded it has left the
\* file as it was.
StoreOfLoadIsIdentity ==
    \A p \in Procs :
        ( /\ pc[p] = "done" /\ stage[p] = "op"
          /\ op[p].name \in Mutating
          /\ ret[p].err = "nil"
          /\ dbStruct[p] = loaded[p] )
        => file = pre[p]

Reading ==
    {"GetChirp", "GetChirps", "GetChirpsFromId", "GetUser", "ComparePasswords",
     "IsTokenRevoked"}

\* C27: a read operation never reaches writeDB, has left the file as it was
\* when it returns, and IsTokenRevoked(t) returns true exactly when t is a key
\* of RevokedRefreshTokens.
C27_ReadsDoNotStore ==
    \A p \in Procs :
        (op[p].name \in Reading /\ stage[p] = "op")
        => /\ pc[p] \notin {"writeDB", "Encode"}
           /\ fd[p] # "write"
           /\ pc[p] = "done" => file = pre[p]
           /\ (Done(p, "IsTokenRevoked") /\ Decodes(pre[p]))
              => /\ ret[p].err = "nil"
                 /\ ret[p].val = (op[p].args[1] \in
                                    DOMAIN GobDecode(pre[p]).RevokedRefreshTokens)

\* IsTokenRevoked has answered true for a revoked token in a store that holds
\* a chirp.
C27_Witness ==
    \E p \in Procs :
        /\ Done(p, "IsTokenRevoked")
        /\ ret[p].val = TRUE
        /\ GobDecode(file).Chirps # EmptyMap
        /\ file = pre[p]

\* A word that is one of the banned words when letter case is ignored, among
\* the words of Words.
BannedSpellings ==
    { <<"F", "O", "R", "N", "A", "X">>, <<"s", "h", "a", "r", "b", "e", "r", "t">>,
      <<"k", "e", "R", "F", "u", "f", "f", "l", "e">> }

\* C28: cleanChirp returns as many words as it was given, in the same order,
\* with "****" in the place of every word that is "kerfuffle", "sharbert" or
\* "fornax" in whatever letter case, and every other word, a banned word
\* with punctuation attached included, as it was; a text with no banned word
\* is returned as it was; "Oh sharbert" gives "Oh ****", "FORNAX THAT!"
\* gives "**** THAT!" and "kerfuffle!" gives "kerfuffle!".
C28_CleanChirp ==
    \A p \in Procs :
        Done(p, "cleanChirp") =>
            LET text == op[p].args[1]
                given == Split(text, " ")
                got == Split(ret[p].val, " ")
            IN /\ Len(got) = Len(given)
               /\ \A i \in 1..Len(given) :
                     got[i] = IF given[i] \in BannedSpellings THEN Stars ELSE given[i]
               /\ (\A i \in 1..Len(given) : given[i] \notin BannedSpellings)
                     => ret[p].val = text
               /\ text = <<"O", "h", " ", "s", "h", "a", "r", "b", "e", "r", "t">>
                     => ret[p].val = <<"O", "h", " ", "*", "*", "*", "*">>
               /\ text = <<"F", "O", "R", "N", "A", "X", " ", "T", "H", "A", "T", "!">>
                     => ret[p].val = <<"*", "*", "*", "*", " ", "T", "H", "A", "T", "!">>
               /\ text = <<"k", "e", "r", "f", "u", "f", "f", "l", "e", "!">>
                     => ret[p].val = text

\* "keRFuffle kerfuffle! Oh" has been cleaned to "**** kerfuffle! Oh".
C28_Witness ==
    \E p \in Procs :
        /\ Done(p, "cleanChirp")
        /\ op[p].args[1] = Join(<< <<"k", "e", "R", "F", "u", "f", "f", "l", "e">>,
                                   <<"k", "e", "r", "f", "u", "f", "f", "l", "e", "!">>,
                                   <<"O", "h">> >>, " ")
        /\ ret[p].val = Join(<< Stars,
                                <<"k", "e", "r", "f", "u", "f", "f", "l", "e", "!">>,
                                <<"O", "h">> >>, " ")

\* C29: the handler answers 404 when the store call returned
\* ErrUserDoesNotExist or ErrChirpDoesNotExist or GetChirp found no chirp,
\* 403 when it returned ErrAuthorization, 409 when it returned
\* ErrUserAlreadyExists or found the token to revoke already revoked, and 500
\* for the other failures; POST /users for an e-mail a user of the snapshot
\* has answers 409, DELETE /chirps/{id} answers 404 for an id no chirp has
\* and 403 for a chirp of another author.
C29_StatusCodes ==
    \A p \in Procs :
        (pc[p] = "done" /\ stage[p] = "op" /\ Decodes(pre[p]))
        => LET code == StatusCode(op[p].name, ret[p])
               s == GobDecode(pre[p])
           IN /\ ret[p].err \in {"ErrUserDoesNotExist", "ErrChirpDoesNotExist"}
                    => code = 404
              /\ (op[p].name = "GetChirp" /\ ret[p].err = "nil" /\ ~ret[p].val[2])
                    => code = 404
              /\ ret[p].err = "ErrAuthorization" => code = 403
              /\ ret[p].err = "ErrUserAlreadyExists" => code = 409
              /\ (op[p].name = "IsTokenRevoked" /\ ret[p].err = "nil" /\ ret[p].val)
                    => code = 409
              /\ ret[p].err \in {"EIO", "EOF", "ErrNotExist"} => code = 500
              /\ ( /\ op[p].name = "CreateUser"
                   /\ \E id \in DOMAIN s.Users :
                         normalizeEmail(s.Users[id].Email)
                            = normalizeEmail(op[p].args[1]) )
                    => code = 409
              /\ ( /\ op[p].name = "DeleteChirp"
                   /\ op[p].args[1] \notin DOMAIN s.Chirps )
                    => code = 404
              /\ ( /\ op[p].name = "DeleteChirp"
                   /\ op[p].args[1] \in DOMAIN s.Chirps
                   /\ s.Chirps[op[p].args[1]].AuthorId # op[p].args[2] )
                    => code = 403

\* C30: with goroutines calling operations on one DB and a scheduler that
\* runs every goroutine that can take a step, every call returns: no
\* interleaving of the read locks of loadDB and the write locks of writeDB
\* leaves a call waiting for ever, RevokeRefreshToken with its two loads
\* before its store included.
C30_EveryCallReturns ==
    \A p \in Procs : (pc[p] \notin {"idle", "done"}) ~> (pc[p] = "done")

\* RevokeRefreshToken, past its two loads, waits for the write lock of the
\* DB while another goroutine holds the read lock of the same DB.
C30_Witness ==
    \E p, q \in Procs :
        /\ p # q
        /\ db[p] = db[q]
        /\ op[p].name = "RevokeRefreshToken"
        /\ pc[p] = "writeDB"
        /\ pc[q] = "Decode"
        /\ mux[db[p]].readers = 1
        /\ ~CanLock(mux[db[p]])

\* C31: every chirp POST /chirps has stored has a body of at most 140
\* characters none of whose space-separated words is a banned word in
\* whatever letter case; a request body of more than 140 characters is
\* answered with 400 and no file is made for it; the body handed to the
\* store is never longer than the body of the request.
C31_StoredBodiesBounded ==
    /\ \A p \in Procs :
          (pc[p] = "done" /\ op[p].name = "postChirps")
          => IF Len(op[p].args[1]) > MaxChirpLen
             THEN ret[p].err = "400" /\ file = NoFile
             ELSE ret[p].err = "nil" /\ Len(ret[p].val) <= Len(op[p].args[1])
    /\ Decodes(file)
          => \A id \in DOMAIN GobDecode(file).Chirps :
                LET body == GobDecode(file).Chirps[id].Body
                    words == Split(body, " ")
                IN /\ Len(body) <= MaxChirpLen
                   /\ \A i \in 1..Len(words), j \in 1..Len(dirtyWords) :
                         ToLower(words[i]) # dirtyWords[j]

\* The request body "FORNAX xxx...x" of exactly 140 characters has been
\* stored as "**** xxx...x".
C31_Witness ==
    /\ Decodes(file)
    /\ \E id \in DOMAIN GobDecode(file).Chirps :
          GobDecode(file).Chirps[id].Body
             = Join(<<Stars, Filler(MaxChirpLen - Len(<<"F", "O", "R", "N", "A", "X">>) - 1)>>, " ")

\* C32: with NewDB calls running concurrently with each other and with
\* store operations, the os.Create of ensureDB never acts on a file that
\* holds a stored structure other than the initial one, and no loadDB of an
\* operation, which runs after the NewDB of its request has returned
\* without error, fails to decode a file that an ensureDB has created and
\* not yet written.
C32_ConcurrentInitSafe ==
    [][\A p \in Procs :
          /\ (pc[p] = "Create" /\ pc'[p] = "writeDB")
                => ~(Decodes(file) /\ file # GobEncode(InitialStructure))
          /\ ( /\ pc[p] = "Decode" /\ pc'[p] = "done"
               /\ stage[p] \in {"op", "check"}
               /\ \E q \in Procs : stage[q] = "init" /\ pc[q] \in {"writeDB", "Encode"} )
                => ret'[p].err # "EOF"]_vars

\* C33: whenever no request is being served, fileserverHits is the number of
\* requests for /app served since resetHandler last ran (since the start
\* when it never ran): every such request has raised the counter by exactly
\* one and no increment is lost, the requests being served concurrently.
C33_HitsCountRequests ==
    Quiet => fileserverHits = appServed

\* C34: ensureDB takes the file to be there exactly when a file is there:
\* when exists has answered, NewDB goes on without touching the file if
\* there is a file, and goes on to create and initialise it if there is
\* none; NewDB never returns its DB for a path with no file.
C34_ExistsExact ==
    [][\A p \in Procs :
          (pc[p] = "ensureDB" /\ pc'[p] # "ensureDB")
          => /\ file.kind # "absent" => (pc'[p] = "loadDB" /\ stage'[p] = "op")
             /\ file.kind = "absent" => pc'[p] = "Create"]_vars

====
